---- MODULE Spec2Model ----
(***************************************************************************)
(* A model of src/src/05-objects-tasks.js: the Rectangle constructor, the  *)
(* JSON bridge (getJSON / fromJSON) and the css selector builder (class    *)
(* Select and the cssSelectorBuilder facade object).                       *)
(*                                                                         *)
(* JavaScript strings are modelled as sequences of one-character strings,  *)
(* so that slicing, prefixing and concatenation are computed as the code   *)
(* computes them.                                                          *)
(***************************************************************************)
EXTENDS Integers, Sequences, FiniteSets, TLC

VARIABLES
    insts,      \* the Select instances the caller holds, by the variable holding them
    selector,   \* cssSelectorBuilder.selector (a property of the facade object)
    results,    \* what the values of the two latest cssSelectorBuilder.combine
                \* calls, which the caller holds, were built from
    last,       \* the last call made on the selector builder and its outcome
    rect,       \* the Rectangle object under observation
    rlast,      \* the last operation on the rectangle and what it returned
    jx,         \* the value handed to getJSON
    jtext,      \* the JSON text at hand
    jres,       \* the outcome of the last fromJSON call
    jlast       \* the last operation of the JSON bridge

vars == <<insts, selector, results, last, rect, rlast, jx, jtext, jres, jlast>>
selVars == <<insts, selector, results, last>>
rectVars == <<rect, rlast>>
jsonVars == <<jx, jtext, jres, jlast>>

-----------------------------------------------------------------------------
(* Bounds of the model. *)

\* the number of fragments the instances of the heap may hold together
MaxFrags == 3
\* the length of the strings combine is let build
MaxSelLen == 11

-----------------------------------------------------------------------------
(* Strings. *)

\* s.slice(0, n)
Slice0(s, n) == SubSeq(s, 1, IF n < Len(s) THEN n ELSE Len(s))

\* ''.concat(...list): the strings of a list joined with no separator
RECURSIVE Flatten(_)
Flatten(list) ==
    IF list = <<>> THEN <<>> ELSE Head(list) \o Flatten(Tail(list))

\* the template literal `${sel1} ${combinator} ${sel2}`
Template(sel1, combinator, sel2) ==
    sel1 \o <<" ">> \o combinator \o <<" ">> \o sel2

\* JavaScript truthiness of a string
Truthy(s) == s # <<>>

\* what `${x}` renders for a property that was never assigned
Undefined == <<"undefined">>

\* The bare values callers pass as a fragment: the empty string and a name.
Values == { <<>>, <<"a">> }

\* The combinator tokens callers pass: a css combinator and a string that is
\* none.
Tokens == { <<"+">>, <<"x">> }

\* The caller's variables that hold Select instances.
Slots == { "x", "y" }

\* The caller's variables that hold values cssSelectorBuilder.combine returned:
\* the value of the latest call and the value of the call before it.
ResultSlots == { "older", "newer" }

-----------------------------------------------------------------------------
(* function Rectangle *)

\* the bound of the widths and heights callers pass
MaxDim == 3
Dims == (0 - MaxDim) .. MaxDim

\* new Rectangle(width, height): the object with its two properties; args is
\* the scope the arrow function getArea closes over besides this
Rectangle(width, height) ==
    [ width |-> width, height |-> height,
      args |-> [ width |-> width, height |-> height ] ]

\* an area computed from the arguments of the constructor
GetArea_FromArgs(r) == r.args.height * r.args.width

\* r.getArea(): () => this.height * this.width
GetArea(r) == r.height * r.width

RectCall(op, w, h, ret) == [ op |-> op, w |-> w, h |-> h, ret |-> ret ]

\* rect = new Rectangle(w, h)
NewRectangle == \E w \in Dims, h \in Dims :
    /\ rect' = Rectangle(w, h)
    /\ rlast' = RectCall("new", w, h, 0)

\* rect.getArea()
CallGetArea ==
    /\ rlast' = RectCall("getArea", rect.width, rect.height, GetArea(rect))
    /\ UNCHANGED rect

\* rect.width = w: the properties are plain writable properties
SetWidth == \E w \in Dims :
    /\ rect' = [rect EXCEPT !.width = w]
    /\ rlast' = RectCall("setWidth", w, rect.height, 0)

\* rect.height = h
SetHeight == \E h \in Dims :
    /\ rect' = [rect EXCEPT !.height = h]
    /\ rlast' = RectCall("setHeight", rect.width, h, 0)

\* no rectangle is under observation
RectIdle ==
    /\ rect = Rectangle(0, 0)
    /\ rlast = RectCall("none", 0, 0, 0)

\* a rectangle was constructed from some width and height
RectInit == \E w \in Dims, h \in Dims :
    /\ rect = Rectangle(w, h)
    /\ rlast = RectCall("new", w, h, 0)

-----------------------------------------------------------------------------
(* getJSON and fromJSON *)

\* the depth of nesting of the values callers hand to getJSON
MaxDepth == 1
\* the length of the texts callers hand to fromJSON
MaxTextLen == 4

\* JavaScript values: null, undefined, numbers, strings, arrays and objects.
\* kids holds the elements of an array (k is empty) or the own properties of
\* an object (k is the key), in the order the engine enumerates them.
JSValue(t, n, str, kids) == [ t |-> t, n |-> n, s |-> str, kids |-> kids ]
Null == JSValue("null", 0, << >>, << >>)
Undef == JSValue("undefined", 0, << >>, << >>)
Num(n) == JSValue("num", n, << >>, << >>)
Str(str) == JSValue("str", 0, str, << >>)
Arr(kids) == JSValue("arr", 0, << >>, kids)
Obj(kids) == JSValue("obj", 0, << >>, kids)
Kid(k, v) == [ k |-> k, v |-> v ]

DigitChars == << "0", "1", "2", "3", "4", "5", "6", "7", "8", "9" >>
IsDigit(c) == \E d \in DOMAIN DigitChars : DigitChars[d] = c
DigitVal(c) == (CHOOSE d \in DOMAIN DigitChars : DigitChars[d] = c) - 1

\* the decimal text of a natural number
RECURSIVE NumText(_)
NumText(n) ==
    IF n < 10 THEN << DigitChars[n + 1] >>
    ELSE NumText(n \div 10) \o << DigitChars[(n % 10) + 1] >>

\* the quoted text of a string that holds no character JSON escapes
Quote(str) == <<"\"">> \o str \o <<"\"">>

\* whether a key is an array index: the engine enumerates these first, in
\* ascending order, before the other keys in order of insertion
IsIndexKey(k) ==
    /\ k # << >>
    /\ \A i \in DOMAIN k : IsDigit(k[i])
    /\ (Len(k) > 1 => k[1] # "0")

RECURSIVE IndexOf(_)
IndexOf(k) ==
    IF k = << >> THEN 0 ELSE IndexOf(SubSeq(k, 1, Len(k) - 1)) * 10 + DigitVal(k[Len(k)])

\* whether key a is enumerated before key b when b is defined after a
Before(a, b) ==
    IF IsIndexKey(b) THEN IsIndexKey(a) /\ IndexOf(a) < IndexOf(b) ELSE TRUE

\* the own properties after key k is given value v: a key already there keeps
\* its place and takes the new value
DefineProp(kids, k, v) ==
    IF \E i \in DOMAIN kids : kids[i].k = k
    THEN [ i \in DOMAIN kids |-> IF kids[i].k = k THEN Kid(k, v) ELSE kids[i] ]
    ELSE LET lead == { i \in DOMAIN kids : Before(kids[i].k, k) }
             n == Cardinality(lead)
         IN SubSeq(kids, 1, n) \o << Kid(k, v) >> \o SubSeq(kids, n + 1, Len(kids))

\* JSON.stringify of a value that is not undefined
RECURSIVE Serialize(_)
RECURSIVE SerializeKids(_, _, _)
SerializeKids(kids, isArray, first) ==
    IF kids = << >> THEN << >>
    ELSE LET kid == Head(kids)
             skip == ~isArray /\ kid.v.t = "undefined"
             text == IF isArray
                     THEN (IF kid.v.t = "undefined" THEN <<"n", "u", "l", "l">>
                           ELSE Serialize(kid.v))
                     ELSE Quote(kid.k) \o <<":">> \o Serialize(kid.v)
         IN IF skip THEN SerializeKids(Tail(kids), isArray, first)
            ELSE (IF first THEN << >> ELSE <<",">>) \o text
                     \o SerializeKids(Tail(kids), isArray, FALSE)
Serialize(v) ==
    CASE v.t = "null" -> <<"n", "u", "l", "l">>
      [] v.t = "num" -> NumText(v.n)
      [] v.t = "str" -> Quote(v.s)
      [] v.t = "arr" -> <<"[">> \o SerializeKids(v.kids, TRUE, TRUE) \o <<"]">>
      [] v.t = "obj" -> <<"{">> \o SerializeKids(v.kids, FALSE, TRUE) \o <<"}">>

\* JSON.stringify(value): undefined for undefined, the text otherwise
JsonStringify(v) == IF v.t = "undefined" THEN Undef ELSE Str(Serialize(v))

\* The outcome of parsing a value that starts at position pos of a text.
Parsed(val, pos) == [ ok |-> TRUE, val |-> val, pos |-> pos ]
NoParse == [ ok |-> FALSE, val |-> Undef, pos |-> 0 ]

At(text, i, c) == i <= Len(text) /\ text[i] = c

\* the position after the digits that start at position i
RECURSIVE DigitsEnd(_, _)
DigitsEnd(text, i) ==
    IF i <= Len(text) /\ IsDigit(text[i]) THEN DigitsEnd(text, i + 1) ELSE i

\* a number: 0, or digits that do not start with 0
ParseNumber(text, i) ==
    LET e == DigitsEnd(text, i)
    IN IF text[i] = "0" /\ e > i + 1 THEN NoParse
       ELSE Parsed(Num(IndexOf(SubSeq(text, i, e - 1))), e)

\* the position of the quote that closes the string opened at position i - 1
RECURSIVE QuoteEnd(_, _)
QuoteEnd(text, i) ==
    IF i > Len(text) THEN 0
    ELSE IF text[i] = "\"" THEN i
    ELSE QuoteEnd(text, i + 1)

\* a string: a quote, characters, a quote
ParseString(text, i) ==
    IF ~ At(text, i, "\"") THEN NoParse
    ELSE LET e == QuoteEnd(text, i + 1)
         IN IF e = 0 THEN NoParse ELSE Parsed(Str(SubSeq(text, i + 1, e - 1)), e + 1)

RECURSIVE ParseValue(_, _)
RECURSIVE ParseElements(_, _, _)
RECURSIVE ParseMembers(_, _, _)
\* the elements of an array after its bracket, up to the closing bracket
ParseElements(text, i, kids) ==
    LET e == ParseValue(text, i)
    IN IF ~ e.ok THEN NoParse
       ELSE IF At(text, e.pos, ",")
       THEN ParseElements(text, e.pos + 1, Append(kids, Kid(<< >>, e.val)))
       ELSE IF At(text, e.pos, "]")
       THEN Parsed(Arr(Append(kids, Kid(<< >>, e.val))), e.pos + 1)
       ELSE NoParse
\* the members of an object after its brace, up to the closing brace
ParseMembers(text, i, kids) ==
    LET k == ParseString(text, i)
    IN IF ~ k.ok \/ ~ At(text, k.pos, ":") THEN NoParse
       ELSE LET e == ParseValue(text, k.pos + 1)
            IN IF ~ e.ok THEN NoParse
               ELSE IF At(text, e.pos, ",")
               THEN ParseMembers(text, e.pos + 1, DefineProp(kids, k.val.s, e.val))
               ELSE IF At(text, e.pos, "}")
               THEN Parsed(Obj(DefineProp(kids, k.val.s, e.val)), e.pos + 1)
               ELSE NoParse
ParseValue(text, i) ==
    IF i > Len(text) THEN NoParse
    ELSE IF text[i] = "n"
    THEN (IF i + 3 <= Len(text) /\ SubSeq(text, i, i + 3) = <<"n", "u", "l", "l">>
          THEN Parsed(Null, i + 4)
          ELSE NoParse)
    ELSE IF IsDigit(text[i]) THEN ParseNumber(text, i)
    ELSE IF text[i] = "\"" THEN ParseString(text, i)
    ELSE IF text[i] = "["
    THEN (IF At(text, i + 1, "]") THEN Parsed(Arr(<< >>), i + 2)
          ELSE ParseElements(text, i + 1, << >>))
    ELSE IF text[i] = "{"
    THEN (IF At(text, i + 1, "}") THEN Parsed(Obj(<< >>), i + 2)
          ELSE ParseMembers(text, i + 1, << >>))
    ELSE NoParse

\* JSON.parse(json): the argument is converted to a string first, and the
\* whole of it has to be one value
JsonParse(json) ==
    LET text == IF json.t = "undefined" THEN <<"u", "n", "d", "e", "f", "i", "n", "e", "d">>
                ELSE json.s
        r == ParseValue(text, 1)
    IN IF r.ok /\ r.pos = Len(text) + 1 THEN r ELSE NoParse

\* the prototype of a value that Object.setPrototypeOf leaves as it is
OwnProto(v) ==
    CASE v.t = "num" -> "Number.prototype"
      [] v.t = "str" -> "String.prototype"
      [] v.t = "arr" -> "Array.prototype"
      [] v.t = "obj" -> "Object.prototype"
      [] OTHER -> ""

\* Object.setPrototypeOf(res, proto): throws on null and undefined, leaves a
\* primitive as it is, rebinds an object or array
SetPrototypeOf(res, proto) ==
    IF res.t \in {"null", "undefined"}
    THEN [ err |-> "TypeError", val |-> Undef, proto |-> "" ]
    ELSE IF res.t \in {"obj", "arr"}
    THEN [ err |-> "", val |-> res, proto |-> proto ]
    ELSE [ err |-> "", val |-> res, proto |-> OwnProto(res) ]

\* getJSON(obj)
GetJSON(obj) == JsonStringify(obj)

\* a fromJSON that catches what JSON.parse throws and returns undefined
FromJSON_CatchAll(proto, json) ==
    LET res == JsonParse(json)
    IN IF ~ res.ok THEN [ err |-> "", val |-> Undef, proto |-> "" ]
       ELSE SetPrototypeOf(res.val, proto)

\* a fromJSON that returns what it parsed
FromJSON_NoRebind(proto, json) ==
    LET res == JsonParse(json)
    IN IF ~ res.ok THEN [ err |-> "SyntaxError", val |-> Undef, proto |-> "" ]
       ELSE [ err |-> "", val |-> res.val, proto |-> OwnProto(res.val) ]

\* fromJSON(proto, json)
FromJSON(proto, json) ==
    LET res == JsonParse(json)
    IN IF ~ res.ok THEN [ err |-> "SyntaxError", val |-> Undef, proto |-> "" ]
       ELSE SetPrototypeOf(res.val, proto)

\* The templates callers rebind to.
Templates == { "Circle.prototype", "Rectangle.prototype" }

\* The values callers hand to getJSON, by depth of nesting: arrays of up to two
\* elements and objects with keys among "1" and "n".
Prims == { Null, Undef, Num(1), Str(<< >>), Str(<<"n">>) }
ArraysOf(vs) ==
    { Arr(<< >>) } \cup { Arr(<< Kid(<< >>, a) >>) : a \in vs }
        \cup { Arr(<< Kid(<< >>, a), Kid(<< >>, b) >>) : a \in vs, b \in vs }
ObjectsOf(vs) ==
    { Obj(<< >>) } \cup { Obj(<< Kid(<<"n">>, a) >>) : a \in vs }
        \cup { Obj(<< Kid(<<"1">>, a) >>) : a \in vs }
        \cup { Obj(<< Kid(<<"1">>, a), Kid(<<"n">>, b) >>) : a \in vs, b \in vs }
RECURSIVE JSValues(_)
JSValues(d) ==
    IF d = 0 THEN Prims
    ELSE LET vs == JSValues(d - 1) IN Prims \cup ArraysOf(vs) \cup ObjectsOf(vs)

\* The texts callers hand to fromJSON: every string of the characters JSON
\* punctuation, a digit and the letters of null, up to the length bound.
TextChars == { "{", "}", "[", "]", ",", ":", "\"", "1", "n", "u", "l" }
Texts == UNION { [ 1 .. n -> TextChars ] : n \in 0 .. MaxTextLen }

JsonCall(op, proto) == [ op |-> op, proto |-> proto ]
NoFromJSON == [ err |-> "", val |-> Undef, proto |-> "" ]

\* jtext = getJSON(jx)
CallGetJSON ==
    /\ jlast.op = "value"
    /\ jtext' = GetJSON(jx)
    /\ jlast' = JsonCall("getJSON", "")
    /\ UNCHANGED <<jx, jres>>

\* jres = fromJSON(proto, jtext)
CallFromJSON == \E proto \in Templates :
    /\ jlast.op \in {"getJSON", "text"}
    /\ jres' = FromJSON(proto, jtext)
    /\ jlast' = JsonCall(IF jlast.op = "text" THEN "fromJSON" ELSE "roundTrip", proto)
    /\ UNCHANGED <<jx, jtext>>

JsonIdle ==
    /\ jx = Undef
    /\ jtext = Undef
    /\ jres = NoFromJSON
    /\ jlast = JsonCall("none", "")

\* the caller holds a value to serialize, or a text to deserialize
JsonInit ==
    /\ jres = NoFromJSON
    /\ \/ /\ jx \in JSValues(MaxDepth)
          /\ jtext = Undef
          /\ jlast = JsonCall("value", "")
       \/ /\ jx = Undef
          /\ jtext \in { Str(text) : text \in Texts }
          /\ jlast = JsonCall("text", "")

-----------------------------------------------------------------------------
(* class Select *)

DupMsg == "Element, id and pseudo-element should not occur more then one time inside the selector"
OrderMsg == "Selector parts should be arranged in the following order: element, id, class, attribute, pseudo-class, pseudo-element"

\* the six properties the constructor assigns, and the property selector,
\* which no instance has until its method combine assigns it
EmptySelect ==
    [ element_prop |-> <<>>, id_prop |-> <<>>, class_prop |-> <<>>,
      attr_prop |-> <<>>, pseudoClass_prop |-> <<>>, pseudoElement_prop |-> <<>>,
      selector |-> Undefined ]

\* a constructor that looks for ':' before it looks for '::'
SelectNew_ColonFirst(element) ==
    IF Slice0(element, 1) = <<"#">>
    THEN [EmptySelect EXCEPT !.id_prop = element]
    ELSE IF Slice0(element, 1) = <<":">>
    THEN [EmptySelect EXCEPT !.pseudoClass_prop = <<element>>]
    ELSE IF Slice0(element, 2) = <<":", ":">>
    THEN [EmptySelect EXCEPT !.pseudoElement_prop = element]
    ELSE IF Slice0(element, 1) = <<".">>
    THEN [EmptySelect EXCEPT !.class_prop = <<element>>]
    ELSE IF Slice0(element, 1) = <<"[">>
    THEN [EmptySelect EXCEPT !.attr_prop = <<element>>]
    ELSE [EmptySelect EXCEPT !.element_prop = element]

\* new Select(element)
SelectNew(element) ==
    IF Slice0(element, 1) = <<"#">>
    THEN [EmptySelect EXCEPT !.id_prop = element]
    ELSE IF Slice0(element, 2) = <<":", ":">>
    THEN [EmptySelect EXCEPT !.pseudoElement_prop = element]
    ELSE IF Slice0(element, 1) = <<".">>
    THEN [EmptySelect EXCEPT !.class_prop = <<element>>]
    ELSE IF Slice0(element, 1) = <<"[">>
    THEN [EmptySelect EXCEPT !.attr_prop = <<element>>]
    ELSE IF Slice0(element, 1) = <<":">>
    THEN [EmptySelect EXCEPT !.pseudoClass_prop = <<element>>]
    ELSE [EmptySelect EXCEPT !.element_prop = element]

\* a stringify that writes the attributes before the classes
SelectStringify_AttrFirst(s) ==
    s.element_prop \o s.id_prop \o Flatten(s.attr_prop) \o Flatten(s.class_prop)
        \o Flatten(s.pseudoClass_prop) \o s.pseudoElement_prop

\* Select.prototype.stringify
SelectStringify(s) ==
    s.element_prop \o s.id_prop \o Flatten(s.class_prop) \o Flatten(s.attr_prop)
        \o Flatten(s.pseudoClass_prop) \o s.pseudoElement_prop

\* The outcome of a method of Select called on s with argument value:
\* the instance after the call, the error thrown ("" when none) and whether
\* the call returned this (otherwise it returned undefined or threw).
Outcome(s, err, retThis) == [ obj |-> s, err |-> err, retThis |-> retThis ]

\* an element that makes the ordering check before the duplicate check
SelectElement_OrderFirst(s, value) ==
    IF \/ Truthy(s.id_prop) \/ Len(s.class_prop) > 0 \/ Len(s.attr_prop) > 0
       \/ Len(s.pseudoClass_prop) > 0 \/ Truthy(s.pseudoElement_prop)
    THEN Outcome(s, OrderMsg, FALSE)
    ELSE IF Truthy(s.element_prop)
    THEN Outcome(s, DupMsg, FALSE)
    ELSE Outcome(s, "", FALSE)

\* Select.prototype.element
SelectElement(s, value) ==
    IF Truthy(s.element_prop)
    THEN Outcome(s, DupMsg, FALSE)
    ELSE IF \/ Truthy(s.id_prop) \/ Len(s.class_prop) > 0 \/ Len(s.attr_prop) > 0
            \/ Len(s.pseudoClass_prop) > 0 \/ Truthy(s.pseudoElement_prop)
    THEN Outcome(s, OrderMsg, FALSE)
    ELSE Outcome(s, "", FALSE)

\* an id that leaves out the check for a second id
SelectId_NoDupCheck(s, value) ==
    IF \/ Len(s.class_prop) > 0 \/ Len(s.attr_prop) > 0
       \/ Len(s.pseudoClass_prop) > 0 \/ Truthy(s.pseudoElement_prop)
    THEN Outcome(s, OrderMsg, FALSE)
    ELSE Outcome([s EXCEPT !.id_prop = <<"#">> \o value], "", TRUE)

\* Select.prototype.id
SelectId(s, value) ==
    IF Truthy(s.id_prop)
    THEN Outcome(s, DupMsg, FALSE)
    ELSE IF \/ Len(s.class_prop) > 0 \/ Len(s.attr_prop) > 0
            \/ Len(s.pseudoClass_prop) > 0 \/ Truthy(s.pseudoElement_prop)
    THEN Outcome(s, OrderMsg, FALSE)
    ELSE Outcome([s EXCEPT !.id_prop = <<"#">> \o value], "", TRUE)

\* a class that leaves the attributes out of the ordering check
SelectClass_NoAttrCheck(s, value) ==
    IF Len(s.pseudoClass_prop) > 0 \/ Truthy(s.pseudoElement_prop)
    THEN Outcome(s, OrderMsg, FALSE)
    ELSE Outcome([s EXCEPT !.class_prop = Append(@, <<".">> \o value)], "", TRUE)

\* Select.prototype.class
SelectClass(s, value) ==
    IF \/ Len(s.attr_prop) > 0
       \/ Len(s.pseudoClass_prop) > 0 \/ Truthy(s.pseudoElement_prop)
    THEN Outcome(s, OrderMsg, FALSE)
    ELSE Outcome([s EXCEPT !.class_prop = Append(@, <<".">> \o value)], "", TRUE)

\* Select.prototype.attr
SelectAttr(s, value) ==
    IF Len(s.pseudoClass_prop) > 0 \/ Truthy(s.pseudoElement_prop)
    THEN Outcome(s, OrderMsg, FALSE)
    ELSE Outcome([s EXCEPT !.attr_prop = Append(@, <<"[">> \o value \o <<"]">>)], "", TRUE)

\* a pseudoClass that records the fragment before it makes the ordering check
SelectPseudoClass_PushFirst(s, value) ==
    IF Truthy(s.pseudoElement_prop)
    THEN Outcome([s EXCEPT !.pseudoClass_prop = Append(@, <<":">> \o value)], OrderMsg, FALSE)
    ELSE Outcome([s EXCEPT !.pseudoClass_prop = Append(@, <<":">> \o value)], "", TRUE)

\* Select.prototype.pseudoClass
SelectPseudoClass(s, value) ==
    IF Truthy(s.pseudoElement_prop)
    THEN Outcome(s, OrderMsg, FALSE)
    ELSE Outcome([s EXCEPT !.pseudoClass_prop = Append(@, <<":">> \o value)], "", TRUE)

\* Select.prototype.pseudoElement
SelectPseudoElement(s, value) ==
    IF Truthy(s.pseudoElement_prop)
    THEN Outcome(s, DupMsg, FALSE)
    ELSE Outcome([s EXCEPT !.pseudoElement_prop = <<":", ":">> \o value], "", TRUE)

\* a combine that replaces the selector the instance has
SelectCombine_Overwrite(s, sel1, combinator, sel2) ==
    Outcome([s EXCEPT !.selector = Template(sel1, combinator, sel2)], "", TRUE)

\* Select.prototype.combine, sel1 and sel2 being selector1.stringify() and
\* selector2.stringify()
SelectCombine(s, sel1, combinator, sel2) ==
    Outcome([s EXCEPT !.selector =
                IF @ # Undefined /\ Truthy(@)
                THEN @ \o Template(sel1, combinator, sel2)
                ELSE Template(sel1, combinator, sel2)], "", TRUE)

-----------------------------------------------------------------------------
(* const cssSelectorBuilder: the six entry points *)

\* cssSelectorBuilder.element
BuilderElement(value) == SelectNew(value)

\* cssSelectorBuilder.id
BuilderId(value) == SelectNew(<<"#">> \o value)

\* cssSelectorBuilder.class
BuilderClass(value) == SelectNew(<<".">> \o value)

\* cssSelectorBuilder.attr
BuilderAttr(value) == SelectNew(<<"[">> \o value \o <<"]">>)

\* cssSelectorBuilder.pseudoClass
BuilderPseudoClass(value) == SelectNew(<<":">> \o value)

\* cssSelectorBuilder.pseudoElement
BuilderPseudoElement(value) == SelectNew(<<":", ":">> \o value)

\* cssSelectorBuilder.stringify
BuilderStringify(sel) == sel

\* the combine the source keeps in a comment: it appends to a selector that
\* is already there
BuilderCombine_Accumulate(sel, sel1, combinator, sel2) ==
    IF sel # Undefined /\ Truthy(sel) THEN sel \o Template(sel1, combinator, sel2)
    ELSE Template(sel1, combinator, sel2)

\* cssSelectorBuilder.combine: the value it assigns to this.selector, sel
\* being the value this.selector had
BuilderCombine(sel, sel1, combinator, sel2) == Template(sel1, combinator, sel2)

-----------------------------------------------------------------------------------------------------------------------------------------------------
(* The record of the last call. *)

\* op: the method called; target: the variable holding the instance it was
\* called on or, for an entry point of the facade, the variable assigned; err: the error thrown ("" when none);
\* ret: what the call returned ("this", "new", "undefined", "string", or ""
\* when it threw); str: the string returned, if one was
Call(op, target, err, ret) ==
    [ op |-> op, target |-> target, err |-> err, ret |-> ret, str |-> <<>> ]

NoCall == Call("none", "", "", "")

\* the number of fragments an instance holds
Frags(s) ==
    (IF Truthy(s.element_prop) THEN 1 ELSE 0) + (IF Truthy(s.id_prop) THEN 1 ELSE 0)
    + Len(s.class_prop) + Len(s.attr_prop) + Len(s.pseudoClass_prop)
    + (IF Truthy(s.pseudoElement_prop) THEN 1 ELSE 0)

\* the number of fragments the instances of heap hold, the one in variable
\* except left out
RECURSIVE FragsBut(_, _, _)
FragsBut(heap, vs, except) ==
    IF vs = {} THEN 0
    ELSE LET v == CHOOSE w \in vs : TRUE
         IN (IF v = except THEN 0 ELSE Frags(heap[v])) + FragsBut(heap, vs \ {v}, except)

\* the heap after variable slot is assigned obj
Assign(heap, slot, obj) ==
    [ v \in DOMAIN heap \cup {slot} |-> IF v = slot THEN obj ELSE heap[v] ]

-----------------------------------------------------------------------------
(* The selector builder: one action per method. *)

\* entry points that add the string of the new instance to the selector of
\* the facade object
Create_AppendToSelector(op, slot, obj) ==
    /\ FragsBut(insts, DOMAIN insts, slot) + Frags(obj) <= MaxFrags
    /\ insts' = Assign(insts, slot, obj)
    /\ last' = Call(op, slot, "", "new")
    /\ selector' = selector \o SelectStringify(obj)
    /\ UNCHANGED results

\* slot = cssSelectorBuilder.<op>(value): the new instance obj is assigned to
\* a variable of the caller
Create(op, slot, obj) ==
    /\ FragsBut(insts, DOMAIN insts, slot) + Frags(obj) <= MaxFrags
    /\ insts' = Assign(insts, slot, obj)
    /\ last' = Call(op, slot, "", "new")
    /\ UNCHANGED <<selector, results>>

NewElement == \E slot \in Slots, v \in Values : Create("element", slot, BuilderElement(v))
NewId == \E slot \in Slots, v \in Values : Create("id", slot, BuilderId(v))
NewClass == \E slot \in Slots, v \in Values : Create("class", slot, BuilderClass(v))
NewAttr == \E slot \in Slots, v \in Values : Create("attr", slot, BuilderAttr(v))
NewPseudoClass == \E slot \in Slots, v \in Values :
    Create("pseudoClass", slot, BuilderPseudoClass(v))
NewPseudoElement == \E slot \in Slots, v \in Values :
    Create("pseudoElement", slot, BuilderPseudoElement(v))

\* method calls on instances whose three lists are one list each, shared by
\* all instances
Method_SharedLists(op, slot, out) ==
    /\ FragsBut(insts, DOMAIN insts, slot) + Frags(out.obj) <= MaxFrags
    /\ insts' = [ v \in DOMAIN insts |->
                    IF v = slot THEN out.obj
                    ELSE [insts[v] EXCEPT !.class_prop = out.obj.class_prop,
                                          !.attr_prop = out.obj.attr_prop,
                                          !.pseudoClass_prop = out.obj.pseudoClass_prop] ]
    /\ last' = Call(op, slot, out.err,
                    IF out.err # "" THEN ""
                    ELSE IF out.retThis THEN "this" ELSE "undefined")
    /\ UNCHANGED <<selector, results>>

\* slot.<op>(value), a method call on the instance a variable holds, with
\* outcome out
Method(op, slot, out) ==
    /\ FragsBut(insts, DOMAIN insts, slot) + Frags(out.obj) <= MaxFrags
    /\ insts' = [insts EXCEPT ![slot] = out.obj]
    /\ last' = Call(op, slot, out.err,
                    IF out.err # "" THEN ""
                    ELSE IF out.retThis THEN "this" ELSE "undefined")
    /\ UNCHANGED <<selector, results>>

Element == \E slot \in DOMAIN insts, v \in Values :
    Method("element", slot, SelectElement(insts[slot], v))
Id == \E slot \in DOMAIN insts, v \in Values :
    Method("id", slot, SelectId(insts[slot], v))
Class == \E slot \in DOMAIN insts, v \in Values :
    Method("class", slot, SelectClass(insts[slot], v))
Attr == \E slot \in DOMAIN insts, v \in Values :
    Method("attr", slot, SelectAttr(insts[slot], v))
PseudoClass == \E slot \in DOMAIN insts, v \in Values :
    Method("pseudoClass", slot, SelectPseudoClass(insts[slot], v))
PseudoElement == \E slot \in DOMAIN insts, v \in Values :
    Method("pseudoElement", slot, SelectPseudoElement(insts[slot], v))

\* slot.stringify()
Stringify == \E slot \in DOMAIN insts :
    /\ last' = [ Call("stringify", slot, "", "string")
                 EXCEPT !.str = SelectStringify(insts[slot]) ]
    /\ UNCHANGED <<insts, selector, results>>

\* What a value combine returned was built from, left to right: the strings
\* of the operands and the tokens of the combine calls behind it. nested tells
\* whether every one of these calls had a fragment instance for an operand and
\* for the other one a fragment instance or the value of the call just before
\* it, as in an expression of nested combine calls.
Built(parts, nested) == [ parts |-> parts, nested |-> nested ]
NoBuilt == Built(<< >>, FALSE)

\* The selectors a caller can hand to combine: cssSelectorBuilder.element(v)
\* written in place, the instances its variables hold, and the values of
\* earlier combine calls it holds.
Operand(kind, var, value) == [ kind |-> kind, var |-> var, value |-> value ]
Operands ==
    { Operand("new", "", v) : v \in Values }
        \cup { Operand("inst", slot, << >>) : slot \in DOMAIN insts }
        \cup { Operand("result", r, << >>) : r \in { w \in ResultSlots : results[w] # NoBuilt } }

\* selector.stringify() of an operand: every value combine returned is the
\* facade object itself
OperandStringify(x) ==
    CASE x.kind = "new" -> SelectStringify(BuilderElement(x.value))
      [] x.kind = "inst" -> SelectStringify(insts[x.var])
      [] x.kind = "result" -> BuilderStringify(selector)

\* what an operand was built from
Parts(x) ==
    IF x.kind = "result" THEN results[x.var].parts ELSE << OperandStringify(x) >>

\* whether an operand is a fragment instance, or the value of the latest
\* combine call and that value nested
Nested(x) == x.kind = "result" => (x.var = "newer" /\ results.newer.nested)

\* the parts joined by single spaces
RECURSIVE JoinSpaces(_)
JoinSpaces(parts) ==
    IF Len(parts) <= 1 THEN (IF parts = << >> THEN << >> ELSE parts[1])
    ELSE parts[1] \o <<" ">> \o JoinSpaces(Tail(parts))

\* cssSelectorBuilder.combine(a, t, b); the caller keeps the value returned
\* and the one it got from the call before
Combine == \E a \in Operands, b \in Operands, t \in Tokens :
    LET parts == Parts(a) \o <<t>> \o Parts(b)
        sel == BuilderCombine(selector, OperandStringify(a), t, OperandStringify(b))
    IN /\ Len(sel) <= MaxSelLen
       /\ Len(JoinSpaces(parts)) <= MaxSelLen
       /\ selector' = sel
       /\ results' = [ older |-> results.newer,
                       newer |-> Built(parts, /\ Nested(a) /\ Nested(b)
                                              /\ (a.kind # "result" \/ b.kind # "result")) ]
       /\ last' = Call("combine", "newer", "", "this")
       /\ UNCHANGED insts

\* r.stringify(), r a value combine returned
ResultStringify == \E r \in ResultSlots :
    /\ results[r] # NoBuilt
    /\ last' = [ Call("stringify", r, "", "string") EXCEPT !.str = BuilderStringify(selector) ]
    /\ UNCHANGED <<insts, selector, results>>

\* the length of the selector an instance has
SelLen(s) == IF s.selector = Undefined THEN 0 ELSE Len(s.selector)

\* the length of the selectors the instances of heap have, the one in variable
\* except left out
RECURSIVE SelLenBut(_, _, _)
SelLenBut(heap, vs, except) ==
    IF vs = {} THEN 0
    ELSE LET v == CHOOSE w \in vs : TRUE
         IN (IF v = except THEN 0 ELSE SelLen(heap[v])) + SelLenBut(heap, vs \ {v}, except)

\* slot.combine(a, t, b), a call of the method combine of an instance; str
\* holds the string of the template literal
CombineOn == \E slot \in DOMAIN insts, a \in Operands, b \in Operands, t \in Tokens :
    LET out == SelectCombine(insts[slot], OperandStringify(a), t, OperandStringify(b))
    IN /\ SelLenBut(insts, DOMAIN insts, slot) + SelLen(out.obj) <= MaxSelLen
       /\ insts' = [insts EXCEPT ![slot] = out.obj]
       /\ last' = [ Call("combine", slot, out.err, "this")
                    EXCEPT !.str = Template(OperandStringify(a), t, OperandStringify(b)) ]
       /\ UNCHANGED <<selector, results>>

\* on module load no instance exists and the facade object has no selector
SelInit ==
    /\ insts = << >>
    /\ selector = Undefined
    /\ results = [ older |-> NoBuilt, newer |-> NoBuilt ]
    /\ last = NoCall

Init == SelInit /\ RectIdle /\ JsonIdle

Next ==
    \/ (NewElement /\ UNCHANGED <<rectVars, jsonVars>>)
    \/ (NewId /\ UNCHANGED <<rectVars, jsonVars>>)
    \/ (NewClass /\ UNCHANGED <<rectVars, jsonVars>>)
    \/ (NewAttr /\ UNCHANGED <<rectVars, jsonVars>>)
    \/ (NewPseudoClass /\ UNCHANGED <<rectVars, jsonVars>>)
    \/ (NewPseudoElement /\ UNCHANGED <<rectVars, jsonVars>>)
    \/ (Element /\ UNCHANGED <<rectVars, jsonVars>>)
    \/ (Id /\ UNCHANGED <<rectVars, jsonVars>>)
    \/ (Class /\ UNCHANGED <<rectVars, jsonVars>>)
    \/ (Attr /\ UNCHANGED <<rectVars, jsonVars>>)
    \/ (PseudoClass /\ UNCHANGED <<rectVars, jsonVars>>)
    \/ (PseudoElement /\ UNCHANGED <<rectVars, jsonVars>>)
    \/ (Stringify /\ UNCHANGED <<rectVars, jsonVars>>)

Spec == Init /\ [][Next]_vars

\* The calls that build compound selectors.
NextCombine ==
    \/ (Combine /\ UNCHANGED <<rectVars, jsonVars>>)
    \/ (ResultStringify /\ UNCHANGED <<rectVars, jsonVars>>)

SpecCombine == Init /\ [][NextCombine]_vars

\* cssSelectorBuilder.combine has returned: the value of
\* combine(element(a), t, element(b)) or of
\* combine(combine(element(a), t, element(b)), u, element(c))
Combined == \E a \in Values, b \in Values, c \in Values, t \in Tokens, u \in Tokens,
               deep \in BOOLEAN :
    LET sa == SelectStringify(BuilderElement(a))
        sb == SelectStringify(BuilderElement(b))
        sc == SelectStringify(BuilderElement(c))
        inner == BuilderCombine(Undefined, sa, t, sb)
    IN /\ insts = << >>
       /\ selector = IF deep THEN BuilderCombine(inner, BuilderStringify(inner), u, sc)
                      ELSE inner
       /\ results = IF deep
                     THEN [ older |-> Built(<<sa, t, sb>>, TRUE),
                            newer |-> Built(<<sa, t, sb, u, sc>>, TRUE) ]
                     ELSE [ older |-> NoBuilt, newer |-> Built(<<sa, t, sb>>, TRUE) ]
       /\ last = Call("combine", "newer", "", "this")

InitTerminal == Combined /\ RectIdle /\ JsonIdle

\* The calls a caller can make on the value combine returned, which is the
\* facade object: its six entry points and stringify.
NextTerminal ==
    \/ (NewElement /\ UNCHANGED <<rectVars, jsonVars>>)
    \/ (NewId /\ UNCHANGED <<rectVars, jsonVars>>)
    \/ (NewClass /\ UNCHANGED <<rectVars, jsonVars>>)
    \/ (NewAttr /\ UNCHANGED <<rectVars, jsonVars>>)
    \/ (NewPseudoClass /\ UNCHANGED <<rectVars, jsonVars>>)
    \/ (NewPseudoElement /\ UNCHANGED <<rectVars, jsonVars>>)
    \/ (ResultStringify /\ UNCHANGED <<rectVars, jsonVars>>)

SpecTerminal == InitTerminal /\ [][NextTerminal]_vars

\* The calls on instances that use their method combine.
NextSelect ==
    \/ (NewElement /\ UNCHANGED <<rectVars, jsonVars>>)
    \/ (CombineOn /\ UNCHANGED <<rectVars, jsonVars>>)
    \/ (Stringify /\ UNCHANGED <<rectVars, jsonVars>>)

SpecSelect == Init /\ [][NextSelect]_vars

InitRect == SelInit /\ RectInit /\ JsonIdle

NextRect ==
    \/ (NewRectangle /\ UNCHANGED <<selVars, jsonVars>>)
    \/ (CallGetArea /\ UNCHANGED <<selVars, jsonVars>>)
    \/ (SetWidth /\ UNCHANGED <<selVars, jsonVars>>)
    \/ (SetHeight /\ UNCHANGED <<selVars, jsonVars>>)

SpecRect == InitRect /\ [][NextRect]_vars

InitJSON == SelInit /\ RectIdle /\ JsonInit

NextJSON ==
    \/ (CallGetJSON /\ UNCHANGED <<selVars, rectVars>>)
    \/ (CallFromJSON /\ UNCHANGED <<selVars, rectVars>>)

SpecJSON == InitJSON /\ [][NextJSON]_vars

-----------------------------------------------------------------------------
(* The fragment kinds, as the specification speaks of them. *)

Kinds == << "element", "id", "class", "attr", "pseudoClass", "pseudoElement" >>
Singular == { "element", "id", "pseudoElement" }

\* whether a fragment of kind Kinds[n] is set on instance s
IsSet(s, n) ==
    CASE n = 1 -> s.element_prop # <<>>
      [] n = 2 -> s.id_prop # <<>>
      [] n = 3 -> s.class_prop # <<>>
      [] n = 4 -> s.attr_prop # <<>>
      [] n = 5 -> s.pseudoClass_prop # <<>>
      [] n = 6 -> s.pseudoElement_prop # <<>>

\* whether a kind that comes later than Kinds[n] is set on s
LaterSet(s, n) == \E m \in DOMAIN Kinds : m > n /\ IsSet(s, m)

\* the outcome of the append operation of kind Kinds[n]
Apply(n, s, value) ==
    CASE n = 1 -> SelectElement(s, value)
      [] n = 2 -> SelectId(s, value)
      [] n = 3 -> SelectClass(s, value)
      [] n = 4 -> SelectAttr(s, value)
      [] n = 5 -> SelectPseudoClass(s, value)
      [] n = 6 -> SelectPseudoElement(s, value)

\* the fragment of kind Kinds[n] with bare value v, as it is written in a
\* selector
Written(n, v) ==
    CASE n = 1 -> v
      [] n = 2 -> <<"#">> \o v
      [] n = 3 -> <<".">> \o v
      [] n = 4 -> <<"[">> \o v \o <<"]">>
      [] n = 5 -> <<":">> \o v
      [] n = 6 -> <<":", ":">> \o v

\* instance s with the fragment of kind Kinds[n] and bare value v recorded
Recorded(n, s, v) ==
    CASE n = 1 -> [s EXCEPT !.element_prop = Written(1, v)]
      [] n = 2 -> [s EXCEPT !.id_prop = Written(2, v)]
      [] n = 3 -> [s EXCEPT !.class_prop = @ \o <<Written(3, v)>>]
      [] n = 4 -> [s EXCEPT !.attr_prop = @ \o <<Written(4, v)>>]
      [] n = 5 -> [s EXCEPT !.pseudoClass_prop = @ \o <<Written(5, v)>>]
      [] n = 6 -> [s EXCEPT !.pseudoElement_prop = Written(6, v)]

\* the instance an entry point of kind Kinds[n] returns
Seeded(n, v) ==
    CASE n = 1 -> BuilderElement(v)
      [] n = 2 -> BuilderId(v)
      [] n = 3 -> BuilderClass(v)
      [] n = 4 -> BuilderAttr(v)
      [] n = 5 -> BuilderPseudoClass(v)
      [] n = 6 -> BuilderPseudoElement(v)

KindOf(op) == CHOOSE n \in DOMAIN Kinds : Kinds[n] = op

-----------------------------------------------------------------------------
(* Claims about the fragment builder. *)

\* C1: on every reachable instance, an append of kind K made when a kind
\* later than K in the order element, id, class, attribute, pseudo-class,
\* pseudo-element is set (and K is not a singular kind already set) throws the
\* out-of-order error; and every out-of-order error the last call threw was
\* thrown with a later kind set.
C1_OutOfOrderFails ==
    /\ \A slot \in DOMAIN insts, n \in DOMAIN Kinds, v \in Values :
          ( /\ LaterSet(insts[slot], n)
            /\ ~ (Kinds[n] \in Singular /\ IsSet(insts[slot], n)) )
          => Apply(n, insts[slot], v).err = OrderMsg
    /\ last.err = OrderMsg => LaterSet(insts[last.target], KindOf(last.op))

\* C1 witness: class() was called on an instance that holds an attribute, and
\* threw the out-of-order error.
C1_Witness ==
    /\ last.op = "class"
    /\ last.err = OrderMsg
    /\ insts[last.target].attr_prop # <<>>

\* C2: on every reachable instance, element, id or pseudoElement called when
\* that kind is already set throws the duplicate-singular error; and every
\* duplicate-singular error the last call threw was thrown with the kind set.
C2_DuplicateSingularFails ==
    /\ \A slot \in DOMAIN insts, n \in DOMAIN Kinds, v \in Values :
          (Kinds[n] \in Singular /\ IsSet(insts[slot], n))
          => Apply(n, insts[slot], v).err = DupMsg
    /\ last.err = DupMsg =>
          last.op \in Singular /\ IsSet(insts[last.target], KindOf(last.op))

\* C2 witness: id() was called on an instance whose id was set, and threw the
\* duplicate-singular error.
C2_Witness ==
    /\ last.op = "id"
    /\ last.err = DupMsg
    /\ insts[last.target].id_prop # <<>>

\* The fields of an instance hold the fragments as written; these are the bare
\* values behind them.
BareId(s) == Tail(s.id_prop)
BareClass(c) == Tail(c)
BareAttr(a) == SubSeq(a, 2, Len(a) - 1)
BarePseudoClass(p) == Tail(p)
BarePseudoElement(s) == Tail(Tail(s.pseudoElement_prop))

RECURSIVE JoinWritten(_, _)
JoinWritten(n, bares) ==
    IF bares = <<>> THEN <<>>
    ELSE Written(n, Head(bares)) \o JoinWritten(n, Tail(bares))

\* the string C3 says stringify() returns for instance s
C3_Expected(s) ==
    (IF IsSet(s, 1) THEN s.element_prop ELSE <<>>)
    \o (IF IsSet(s, 2) THEN <<"#">> \o BareId(s) ELSE <<>>)
    \o JoinWritten(3, [ k \in DOMAIN s.class_prop |-> BareClass(s.class_prop[k]) ])
    \o JoinWritten(4, [ k \in DOMAIN s.attr_prop |-> BareAttr(s.attr_prop[k]) ])
    \o JoinWritten(5, [ k \in DOMAIN s.pseudoClass_prop |-> BarePseudoClass(s.pseudoClass_prop[k]) ])
    \o (IF IsSet(s, 6) THEN <<":", ":">> \o BarePseudoElement(s) ELSE <<>>)

\* C3: stringify() of every reachable instance is the element name, then
\* '#'+id, then '.'+c for each class in insertion order, then '['+a+']' for
\* each attribute, then ':'+p for each pseudo-class, then '::'+pseudo-element,
\* each only if set and with nothing between them; and the string the last
\* stringify() call returned is that string for the instance as it is after
\* the call.
C3_StringifyConcatenates ==
    /\ \A slot \in DOMAIN insts :
          SelectStringify(insts[slot]) = C3_Expected(insts[slot])
    /\ last.op = "stringify" => last.str = C3_Expected(insts[last.target])

\* C3 witness: stringify() returned a string holding a class before an
\* attribute, from an instance with an id, a class and an attribute.
C3_Witness ==
    /\ last.op = "stringify"
    /\ insts[last.target].id_prop = <<"#", "a">>
    /\ insts[last.target].class_prop = << <<".">> >>
    /\ insts[last.target].attr_prop = << <<"[", "a", "]">> >>
    /\ last.str = <<"#", "a", ".", "[", "a", "]">>

\* C4: on every reachable instance where the singularity check and the
\* ordering check of an append operation pass, the call records the fragment
\* (at the end of the sequence for class, attr and pseudoClass) and returns
\* the instance it was called on.
C4_AppendRecordsAndReturnsThis ==
    \A slot \in DOMAIN insts, n \in DOMAIN Kinds, v \in Values :
        ( /\ ~ (Kinds[n] \in Singular /\ IsSet(insts[slot], n))
          /\ ~ LaterSet(insts[slot], n) )
        => Apply(n, insts[slot], v) = Outcome(Recorded(n, insts[slot], v), "", TRUE)

\* C7: for each entry point K and each bare value v, K(v) returns an instance
\* that holds the fragment of kind K written from v and nothing else.
C7_EntryPointSeedsOneFragment ==
    /\ \A n \in DOMAIN Kinds, v \in Values :
          Seeded(n, v) = Recorded(n, EmptySelect, v)
    /\ (last.ret = "new" /\ last.op # "combine") =>
          \E v \in Values : insts[last.target] = Recorded(KindOf(last.op), EmptySelect, v)

\* C7 witness: the pseudoElement entry point returned an instance that holds
\* the pseudo-element '::a' and nothing else.
C7_Witness ==
    /\ last.op = "pseudoElement"
    /\ last.ret = "new"
    /\ insts[last.target] = [EmptySelect EXCEPT !.pseudoElement_prop = <<":", ":", "a">>]

-----------------------------------------------------------------------------
(* Claims about Rectangle. *)

\* C8: new Rectangle(w, h) has width w and height h, for negative values too,
\* and every call of getArea() returns height * width of the properties as
\* they are stored at the time of the call.
C8_RectangleFieldsAndArea ==
    /\ rlast.op = "new" => rect.width = rlast.w /\ rect.height = rlast.h
    /\ rlast.op = "getArea" => rlast.ret = rect.height * rect.width
    /\ GetArea(rect) = rect.height * rect.width

\* C8 witness: getArea() was called on a rectangle of negative width whose
\* width is no longer the one it was constructed with.
C8_Witness ==
    /\ rlast.op = "getArea"
    /\ rect.width = 0 - 2
    /\ rect.height = 3
    /\ rect.args.width = 1
    /\ rlast.ret = 0 - 6

-----------------------------------------------------------------------------
(* Claims about the JSON bridge. *)

\* a value made of null, numbers, strings, arrays and objects only
RECURSIVE PlainData(_)
PlainData(v) ==
    /\ v.t # "undefined"
    /\ \A i \in DOMAIN v.kids : PlainData(v.kids[i].v)

SeqsUpTo(chars, n) == UNION { [ 1 .. k -> chars ] : k \in 0 .. n }
Short(texts, n) == { text \in texts : Len(text) <= n }
NumberTexts(n) ==
    { text \in SeqsUpTo({ c \in TextChars : IsDigit(c) }, n) :
        text # << >> /\ (Len(text) > 1 => text[1] # "0") }
StringTexts(n) ==
    IF n < 2 THEN {} ELSE { Quote(str) : str \in SeqsUpTo(TextChars \ {"\""}, n - 2) }
AtomTexts(n) ==
    (IF n < 4 THEN {} ELSE { <<"n", "u", "l", "l">> }) \cup NumberTexts(n) \cup StringTexts(n)
\* one or more items joined by commas, no longer than n
RECURSIVE CommaLists(_, _)
CommaLists(items, n) ==
    IF n < 1 THEN {}
    ELSE Short(items, n)
         \cup UNION { { item \o <<",">> \o rest : rest \in CommaLists(items, n - Len(item) - 1) }
                      : item \in Short(items, n - 2) }
RECURSIVE WellFormedTexts(_)
WellFormedTexts(n) ==
    IF n < 1 THEN {}
    ELSE LET inner == WellFormedTexts(n - 2)
             members == { key \o <<":">> \o val : key \in StringTexts(n - 4), val \in inner }
         IN AtomTexts(n)
            \cup (IF n < 2 THEN {} ELSE { <<"[", "]">>, <<"{", "}">> })
            \cup { <<"[">> \o body \o <<"]">> : body \in CommaLists(inner, n - 2) }
            \cup { <<"{">> \o body \o <<"}">> : body \in CommaLists(members, n - 2) }
WFTexts == WellFormedTexts(MaxTextLen)

\* whether the text the last fromJSON call was given is well-formed JSON: a
\* text getJSON returned is, unless getJSON returned undefined
WellFormed ==
    IF jlast.op = "roundTrip" THEN jx.t # "undefined" ELSE jtext.s \in WFTexts

-----------------------------------------------------------------------------
(* Claims about combine. *)

\* C5: right after combine(A, t, B), for operands that are fragment instances
\* or values of earlier combine calls, stringify() of the value returned is
\* SA + ' ' + t + ' ' + SB, SA and SB being the strings A and B were built to
\* represent.
C5_CombineJoinsOperands ==
    /\ last.op = "combine" =>
          BuilderStringify(selector) = JoinSpaces(results.newer.parts)
    /\ (last.op = "stringify" /\ last.target = "newer") =>
          last.str = JoinSpaces(results.newer.parts)

\* C6: the value of an expression of nested combine calls, each with a
\* fragment instance for one operand and a fragment instance or a nested call
\* for the other, stringifies to the strings of the fragment instances and the
\* tokens, left to right, joined by single spaces.
C6_NestedCombineFlattens ==
    results.newer.nested =>
        /\ BuilderStringify(selector) = JoinSpaces(results.newer.parts)
        /\ (last.op = "stringify" /\ last.target = "newer") =>
              last.str = JoinSpaces(results.newer.parts)

\* C6 witness: three nested combine calls, with two different tokens, returned
\* a value that stringifies to the four operands and three tokens in order.
C6_Witness ==
    /\ last.op = "stringify"
    /\ last.target = "newer"
    /\ results.newer.nested
    /\ Len(results.newer.parts) = 7
    /\ results.newer.parts[2] # results.newer.parts[4]
    /\ results.newer.parts[1] = <<"a">>
    /\ last.str = JoinSpaces(results.newer.parts)

\* C11: once combine has returned a value, stringify() of that value returns
\* the same string after every later call on the builder: no step changes the
\* string the values of earlier combine calls stringify to.
C11_CombineResultIsFinal ==
    [][ results.newer # NoBuilt
          => BuilderStringify(selector') = BuilderStringify(selector) ]_vars

-----------------------------------------------------------------------------
(* Further claims about the fragment builder. *)

\* C12: on every reachable instance, element or id called when that kind is
\* already set and a later kind is set too throws the duplicate-singular
\* error, not the out-of-order error; and so did the last call, if it was
\* such a call.
C12_DuplicateCheckedFirst ==
    /\ \A slot \in DOMAIN insts, n \in {1, 2}, v \in Values :
          (IsSet(insts[slot], n) /\ LaterSet(insts[slot], n))
          => Apply(n, insts[slot], v).err = DupMsg
    /\ ( /\ last.op \in {"element", "id"}
         /\ IsSet(insts[last.target], KindOf(last.op))
         /\ LaterSet(insts[last.target], KindOf(last.op)) )
       => last.err = DupMsg

\* C12 witness: element() was called on an instance that holds an element and
\* a class, and threw the duplicate-singular error.
C12_Witness ==
    /\ last.op = "element"
    /\ last.err = DupMsg
    /\ insts[last.target].element_prop = <<"a">>
    /\ insts[last.target].class_prop # <<>>

\* C13: the instance an entry point returns is the one its argument alone
\* determines, and no call, succeeding or failing, changes what an instance
\* other than the one it was made on (or, for an entry point, the one the
\* variable assigned held) stringifies to.
C13_InstancesShareNoState ==
    [][ /\ \A v \in DOMAIN insts : v # last'.target =>
              /\ v \in DOMAIN insts'
              /\ SelectStringify(insts'[v]) = SelectStringify(insts[v])
        /\ last'.ret = "new" =>
              \E value \in Values :
                  insts'[last'.target] = Seeded(KindOf(last'.op), value) ]_vars

\* C13 witness: class() succeeded on one instance while another instance held
\* a class of its own, which it still holds alone.
C13_Witness ==
    /\ last.op = "class"
    /\ last.ret = "this"
    /\ DOMAIN insts = Slots
    /\ \E v \in Slots \ {last.target} :
          /\ insts[v].class_prop = << <<".", "a">> >>
          /\ insts[last.target].class_prop = << <<".">>, <<".">> >>

\* C14: an append that throws the duplicate-singular or the out-of-order
\* error leaves the six fields of every instance, the one it was called on
\* included, as they were, so that every later call finds the instance as if
\* the failed call had not been made; and on every reachable instance the
\* outcome of a failing append holds the instance unchanged.
C14_FailingAppendChangesNothing ==
    [][ /\ last'.err \in {DupMsg, OrderMsg} =>
              /\ insts' = insts
              /\ SelectStringify(insts'[last'.target]) = SelectStringify(insts[last'.target])
        /\ \A slot \in DOMAIN insts, n \in DOMAIN Kinds, v \in Values :
              Apply(n, insts[slot], v).err # "" => Apply(n, insts[slot], v).obj = insts[slot] ]_vars

\* C14 witness: pseudoClass() threw the out-of-order error on an instance
\* that holds an element and a pseudo-element, and nothing else.
C14_Witness ==
    /\ last.op = "pseudoClass"
    /\ last.err = OrderMsg
    /\ insts[last.target] = [EmptySelect EXCEPT !.element_prop = <<"a">>,
                                                !.pseudoElement_prop = <<":", ":", "a">>]

\* C15: stringify() of an instance is the fragments of the calls that built
\* it, written with their punctuation, in the order of the calls: an entry
\* point of kind K with value v returns an instance that stringifies to the
\* fragment K, v; and on every reachable instance an append of kind K with
\* value v that does not throw leaves an instance that stringifies to the
\* string it had followed by the fragment K, v.
C15_StringifyInCallOrder ==
    /\ \A n \in DOMAIN Kinds, v \in Values :
          SelectStringify(Seeded(n, v)) = Written(n, v)
    /\ \A slot \in DOMAIN insts, n \in DOMAIN Kinds, v \in Values :
          Apply(n, insts[slot], v).err = "" =>
              SelectStringify(Apply(n, insts[slot], v).obj)
                  = SelectStringify(insts[slot]) \o Written(n, v)

-----------------------------------------------------------------------------
(* Further claims about combine. *)

\* C16: a call of element, id, class, attr, pseudoClass or pseudoElement on
\* the value combine returned leaves the string that value stringifies to as
\* it was, and stringify() of the value returns the compound string as combine
\* built it, with no fragment added.
C16_CombineResultIsTerminal ==
    [][ /\ last'.ret = "new" => BuilderStringify(selector') = BuilderStringify(selector)
        /\ (last'.op = "stringify" /\ last'.target = "newer") =>
              last'.str = JoinSpaces(results.newer.parts) ]_vars

\* C16 witness: id('a') and class('a') were called on the value of a nested
\* combine, and stringify() of that value then returned the compound string.
C16_Witness ==
    /\ last.op = "stringify"
    /\ last.target = "newer"
    /\ DOMAIN insts = Slots
    /\ insts["x"] = BuilderId(<<"a">>)
    /\ insts["y"] = BuilderClass(<<"a">>)
    /\ last.str = <<"a", " ", "+", " ", " ", "x", " ", "a">>

\* C17: a call of the method combine of an instance returns the instance,
\* with the string 'SA t SB' as its selector if it had none, and otherwise
\* appended to the selector it had with no separator, where
\* cssSelectorBuilder.combine would assign 'SA t SB' alone; the six fragment
\* fields of the instance, and so what it stringifies to, are as before.
C17_SelectCombineAccumulates ==
    [][ (last'.op = "combine" /\ last'.target \in DOMAIN insts) =>
          LET before == insts[last'.target]
              after == insts'[last'.target]
          IN /\ last'.ret = "this"
             /\ after.selector = IF before.selector = Undefined THEN last'.str
                                  ELSE before.selector \o last'.str
             /\ \E a \in Operands, b \in Operands, t \in Tokens :
                   /\ last'.str = Template(OperandStringify(a), t, OperandStringify(b))
                   /\ BuilderCombine(before.selector, OperandStringify(a), t,
                                     OperandStringify(b)) = last'.str
             /\ [after EXCEPT !.selector = before.selector] = before
             /\ SelectStringify(after) = SelectStringify(before) ]_vars

\* C17 witness: combine was called twice on an instance that holds the
\* element a; its selector is the two strings one after the other.
C17_Witness ==
    /\ last.op = "combine"
    /\ last.target \in DOMAIN insts
    /\ last.str = <<" ", "x", " ">>
    /\ insts[last.target].element_prop = <<"a">>
    /\ insts[last.target].selector = <<"a", " ", "+", " ", "a", " ", "x", " ">>

====
